---- MODULE Spec2Model ----
(***************************************************************************)
(* Arch Password Generator API (src/Api/api.js).                           *)
(*                                                                         *)
(* A string is a sequence of one-character strings, so that charAt,        *)
(* replace, toLowerCase and the regular expressions of the source can be   *)
(* computed character by character.                                        *)
(***************************************************************************)
EXTENDS Integers, Sequences, FiniteSets, TLC

VARIABLES
    rngState,     \* internal state of Math.random()
    request,      \* the HTTP request in flight, or NoRequest
    response,     \* the HTTP response sent for it, or NoResponse
    genCalls,     \* generatePassword invocations made for the request in flight
    scoreInput,   \* argument of calculatePasswordStrength (scorer specification)
    scoreResult   \* its return value, or NotScored

vars == <<rngState, request, response, genCalls, scoreInput, scoreResult>>

Min(a, b) == IF a < b THEN a ELSE b
Max(a, b) == IF a > b THEN a ELSE b

----------------------------------------------------------------------------
(* Characters *)

LowerSeq == <<"a", "b", "c", "d", "e", "f", "g", "h", "i", "j", "k", "l", "m",
              "n", "o", "p", "q", "r", "s", "t", "u", "v", "w", "x", "y", "z">>
UpperSeq == <<"A", "B", "C", "D", "E", "F", "G", "H", "I", "J", "K", "L", "M",
              "N", "O", "P", "Q", "R", "S", "T", "U", "V", "W", "X", "Y", "Z">>
DigitSeq == <<"0", "1", "2", "3", "4", "5", "6", "7", "8", "9">>
SymbolSeq == <<"@", "#", "$", "%", "&", "*", "!", "?", "+", "=">>
BracketSeq == <<"[", "]", "{", "}", "(", ")", "<", ">">>

Range(s) == {s[i] : i \in 1..Len(s)}

\* the character classes [a-z], [A-Z], [0-9] of the regular expressions
LowerChars == Range(LowerSeq)
UpperChars == Range(UpperSeq)
DigitChars == Range(DigitSeq)

\* String.prototype.toLowerCase, on the characters of the model
LowerOf(c) ==
    IF c \in UpperChars
    THEN LowerSeq[CHOOSE i \in 1..Len(UpperSeq) : UpperSeq[i] = c]
    ELSE c
toLowerCase(s) == [i \in 1..Len(s) |-> LowerOf(s[i])]

\* RegExp.prototype.test for a pattern that is an alternation of literals
Includes(s, lit) ==
    \E i \in 1..(Len(s) - Len(lit) + 1) :
        \A j \in 1..Len(lit) : s[i + j - 1] = lit[j]

----------------------------------------------------------------------------
(* calculatePasswordStrength *)

\* /[a-z]/, /[A-Z]/, /[0-9]/ and /[^A-Za-z0-9]/
HasLower(password) == \E i \in 1..Len(password) : password[i] \in LowerChars
HasUpper(password) == \E i \in 1..Len(password) : password[i] \in UpperChars
HasDigit(password) == \E i \in 1..Len(password) : password[i] \in DigitChars
HasSpecial(password) ==
    \E i \in 1..Len(password) :
        password[i] \notin (LowerChars \cup UpperChars \cup DigitChars)

\* the added score and the feedback of the length and variety checks
BonusScore(password) ==
      (IF Len(password) >= 8 THEN 20 ELSE 0)
    + (IF Len(password) >= 12 THEN 10 ELSE 0)
    + (IF Len(password) >= 16 THEN 10 ELSE 0)
    + (IF HasLower(password) THEN 10 ELSE 0)
    + (IF HasUpper(password) THEN 10 ELSE 0)
    + (IF HasDigit(password) THEN 10 ELSE 0)
    + (IF HasSpecial(password) THEN 20 ELSE 0)

Feedback(password) ==
       (IF Len(password) >= 8 THEN <<>>
        ELSE <<"Password should be at least 8 characters long">>)
    \o (IF HasLower(password) THEN <<>> ELSE <<"Add lowercase letters">>)
    \o (IF HasUpper(password) THEN <<>> ELSE <<"Add uppercase letters">>)
    \o (IF HasDigit(password) THEN <<>> ELSE <<"Add numbers">>)
    \o (IF HasSpecial(password) THEN <<>> ELSE <<"Add special characters">>)

\* the line terminators, which "." does not match
LineTerminators == {"\n", "\r"}

\* /(.)\\1{2,}/ : in a regular expression literal "\\" is an escaped backslash,
\* so the pattern is one character other than a line terminator, a backslash,
\* and the digit 1 two or more times
RepetitionTest(password) ==
    \E i \in 1..(Len(password) - 3) :
        /\ password[i] \notin LineTerminators
        /\ password[i + 1] = "\\"
        /\ password[i + 2] = "1"
        /\ password[i + 3] = "1"

SequentialPatterns ==
    { <<"a", "b", "c">>, <<"b", "c", "d">>, <<"c", "d", "e">>,
      <<"1", "2", "3">>, <<"2", "3", "4">>, <<"3", "4", "5">>,
      <<"4", "5", "6">>, <<"5", "6", "7">>, <<"6", "7", "8">>,
      <<"7", "8", "9">> }

\* a plausible slip: the test applied to the password as given
SequentialTestCaseSensitive(password) ==
    \E lit \in SequentialPatterns : Includes(password, lit)

\* /abc|bcd|cde|123|234|345|456|567|678|789/.test(password.toLowerCase())
SequentialTest(password) ==
    \E lit \in SequentialPatterns : Includes(toLowerCase(password), lit)

\* the score before it is clamped
RawScore(password) ==
      BonusScore(password)
    - (IF RepetitionTest(password) THEN 10 ELSE 0)
    - (IF SequentialTest(password) THEN 5 ELSE 0)

\* a plausible slip: strict comparisons
strengthLevelStrict(score) ==
    IF score > 80 THEN "very_strong"
    ELSE IF score > 60 THEN "strong"
    ELSE IF score > 40 THEN "moderate"
    ELSE IF score > 20 THEN "weak"
    ELSE "very_weak"

strengthLevel(score) ==
    IF score >= 80 THEN "very_strong"
    ELSE IF score >= 60 THEN "strong"
    ELSE IF score >= 40 THEN "moderate"
    ELSE IF score >= 20 THEN "weak"
    ELSE "very_weak"

\* a plausible slip: the clamp left out and the special-character bonus
\* added twice
calculatePasswordStrengthUnclamped(password) ==
    LET score == RawScore(password)
                 + (IF HasSpecial(password) THEN 20 ELSE 0)
    IN  [ score    |-> score,
          level    |-> strengthLevel(score),
          feedback |-> Feedback(password) ]

calculatePasswordStrength(password) ==
    LET score == RawScore(password)
    IN  [ score    |-> Max(0, Min(100, score)),
          level    |-> strengthLevel(score),
          feedback |-> Feedback(password) ]

----------------------------------------------------------------------------
(* generatePassword *)

RandDen == 80      \* Math.random() returns one of 0/RandDen .. (RandDen-1)/RandDen

PASSWORD_CONFIGS ==
    [ simple   |-> [ characters    |-> LowerSeq \o DigitSeq,
                     defaultLength |-> 8,
                     maxLength     |-> 50 ],
      standard |-> [ characters    |-> LowerSeq \o UpperSeq \o DigitSeq,
                     defaultLength |-> 12,
                     maxLength     |-> 100 ],
      complex  |-> [ characters    |-> LowerSeq \o UpperSeq \o DigitSeq \o SymbolSeq,
                     defaultLength |-> 16,
                     maxLength     |-> 100 ],
      secure   |-> [ characters    |-> LowerSeq \o UpperSeq \o DigitSeq \o SymbolSeq
                                       \o BracketSeq,
                     defaultLength |-> 20,
                     maxLength     |-> 100 ] ]

\* the keys PASSWORD_CONFIGS[type] finds on Object.prototype: each is truthy
\* and has neither a maxLength nor a characters property
InheritedProperties == {"constructor", "toString"}

\* where PASSWORD_CONFIGS[type] is looked up: "own", "inherited" or "undefined"
ConfigKind(type) ==
    IF type \in DOMAIN PASSWORD_CONFIGS THEN "own"
    ELSE IF type \in InheritedProperties THEN "inherited"
    ELSE "undefined"

InvalidTypeMessage ==
    "Invalid password type. Available types: simple, standard, complex, secure"

InvalidLengthMessage(maxLength) ==
    "Password length must be between 4 and " \o maxLength \o " characters"

\* the messages of the TypeErrors of characters.replace and characters.length
\* when characters is undefined
ReplaceOfUndefinedMessage ==
    "Cannot read properties of undefined (reading 'replace')"
LengthOfUndefinedMessage ==
    "Cannot read properties of undefined (reading 'length')"

Timestamp == "new Date().toISOString()"

GeneratorMeta ==
    [ generator |-> "Arch Password Generator API",
      version   |-> "1.0.0",
      timestamp |-> Timestamp ]

\* the catch block
GenerationError(message) ==
    [ success |-> FALSE,
      error   |-> [ message |-> message, code |-> "GENERATION_ERROR" ],
      meta    |-> GeneratorMeta ]

AmbiguousChars == {"0", "O", "1", "I", "l"}

\* a plausible slip: the g flag left out, so only the first match is removed
RemoveFirstAmbiguous(characters) ==
    IF \E i \in 1..Len(characters) : characters[i] \in AmbiguousChars
    THEN LET k == CHOOSE i \in 1..Len(characters) :
                      /\ characters[i] \in AmbiguousChars
                      /\ \A j \in 1..(i - 1) : characters[j] \notin AmbiguousChars
         IN  SubSeq(characters, 1, k - 1) \o SubSeq(characters, k + 1, Len(characters))
    ELSE characters

\* characters.replace(/[0O1Il]/g, '')
RemoveAmbiguous(characters) ==
    SelectSeq(characters, LAMBDA c : c \notin AmbiguousChars)

\* Math.random(): the generator state s yields s/RandDen and moves on by a
\* fixed stride; Advance(s, n) is the state after n calls
Advance(s, n) == (s + 37 * n) % RandDen

\* a plausible slip: Math.round in place of Math.floor
RandomIndexRounded(s, charactersLength) ==
    (2 * s * charactersLength + RandDen) \div (2 * RandDen)

\* Math.floor(Math.random() * charactersLength)
RandomIndex(s, charactersLength) == (s * charactersLength) \div RandDen

\* the for loop: length characters, one Math.random() each; charAt yields the
\* empty string for an index outside the string, which adds nothing
SamplePassword(characters, length, s) ==
    LET n == Len(characters)
        randomIndex == [ i \in 1..length |-> RandomIndex(Advance(s, i - 1), n) ]
        inside == SelectSeq(randomIndex, LAMBDA k : k >= 0 /\ k < n)
    IN  [ i \in 1..Len(inside) |-> characters[inside[i] + 1] ]

\* a plausible slip: the bounds themselves rejected
LengthOutOfRangeInclusive(length, maxLength) == length <= 4 \/ length >= maxLength

\* length < 4 || length > maxLength
LengthOutOfRange(length, maxLength) == length < 4 \/ length > maxLength

\* generatePassword with the generator state s: its return value and the
\* state it leaves
generatePassword(length, type, excludeAmbiguous, s) ==
    IF ConfigKind(type) = "undefined"
    THEN [ result |-> GenerationError(InvalidTypeMessage), rng |-> s ]
    ELSE IF ConfigKind(type) = "inherited"
    THEN \* config.maxLength is undefined: length > undefined is false
         IF length < 4
         THEN [ result |-> GenerationError(InvalidLengthMessage("undefined")),
                rng    |-> s ]
         ELSE IF excludeAmbiguous
         THEN [ result |-> GenerationError(ReplaceOfUndefinedMessage), rng |-> s ]
         ELSE [ result |-> GenerationError(LengthOfUndefinedMessage), rng |-> s ]
    ELSE LET config == PASSWORD_CONFIGS[type]
             maxLength == config.maxLength
         IN  IF LengthOutOfRange(length, maxLength)
             THEN [ result |-> GenerationError(InvalidLengthMessage(ToString(maxLength))),
                    rng    |-> s ]
             ELSE LET characters == IF excludeAmbiguous
                                    THEN RemoveAmbiguous(config.characters)
                                    ELSE config.characters
                      password == SamplePassword(characters, length, s)
                  IN  [ result |->
                          [ success |-> TRUE,
                            data    |-> [ password          |-> password,
                                          length            |-> Len(password),
                                          type              |-> type,
                                          strength          |-> calculatePasswordStrength(password),
                                          excludedAmbiguous |-> excludeAmbiguous ],
                            meta    |-> GeneratorMeta ],
                        rng |-> Advance(s, length) ]

----------------------------------------------------------------------------
(* Values of a query string or a JSON body *)

Undefined == [ t |-> "undefined", chars |-> <<>>, num |-> 0, bool |-> FALSE ]
JsString(chars) == [ t |-> "string", chars |-> chars, num |-> 0, bool |-> FALSE ]
JsNumber(n) == [ t |-> "number", chars |-> <<>>, num |-> n, bool |-> FALSE ]
JsBoolean(b) == [ t |-> "boolean", chars |-> <<>>, num |-> 0, bool |-> b ]
JsArray == [ t |-> "array", chars |-> <<>>, num |-> 0, bool |-> FALSE ]

\* a destructuring default: it applies to undefined only
OrDefault(v, d) == IF v.t = "undefined" THEN d ELSE v

NaN == [ nan |-> TRUE, value |-> 0 ]
Number(n) == [ nan |-> FALSE, value |-> n ]

DigitValue(c) == (CHOOSE i \in 1..Len(DigitSeq) : DigitSeq[i] = c) - 1

RECURSIVE TrimStart(_)
TrimStart(s) == IF Len(s) > 0 /\ s[1] = " " THEN TrimStart(Tail(s)) ELSE s

\* the value of the longest prefix of decimal digits, from the value so far
RECURSIVE DigitsValue(_, _)
DigitsValue(s, acc) ==
    IF Len(s) > 0 /\ s[1] \in DigitChars
    THEN DigitsValue(Tail(s), 10 * acc + DigitValue(s[1]))
    ELSE acc

\* parseInt of a string without a radix prefix: leading white space, a sign,
\* then the decimal digits up to the first other character; NaN without a digit
parseIntOfString(s) ==
    LET t == TrimStart(s)
        signed == Len(t) > 0 /\ t[1] \in {"-", "+"}
        digits == IF signed THEN Tail(t) ELSE t
    IN  IF Len(digits) = 0 \/ digits[1] \notin DigitChars THEN NaN
        ELSE IF signed /\ t[1] = "-" THEN Number(0 - DigitsValue(digits, 0))
        ELSE Number(DigitsValue(digits, 0))

\* parseInt(length): an integer number is converted to its decimal string first
parseInt(v) == IF v.t = "number" THEN Number(v.num) ELSE parseIntOfString(v.chars)

----------------------------------------------------------------------------
(* Requests *)

BatchLimit == 10
DefaultLength == 12

NoRequest ==
    [ route |-> "none", malformed |-> FALSE, length |-> Undefined, type |-> <<>>,
      exclude_ambiguous |-> Undefined, count |-> Undefined ]

PlainRequest(route) == [ NoRequest EXCEPT !.route = route ]

\* the type parameter: absent, the four presets, an unknown name and two
\* names of Object.prototype
TypeParams ==
    { <<>>, <<"simple">>, <<"standard">>, <<"complex">>, <<"secure">>,
      <<"nonexistent">>, <<"constructor">>, <<"toString">> }

QueryLengths ==
    { Undefined,
      JsString(<<"3">>), JsString(<<"4">>), JsString(<<"5", "0">>),
      JsString(<<"5", "1">>), JsString(<<"1", "0", "0">>),
      JsString(<<"1", "0", "1">>), JsString(<<" ", "8">>),
      JsString(<<"1", "6", "p", "x">>), JsString(<<"-", "5">>),
      JsString(<<"a", "b", "c">>), JsString(<<>>) }

QueryFlags ==
    { Undefined, JsString(<<"T", "r", "u", "e">>), JsString(<<"1">>), JsArray }

GetGenerateRequests ==
    { [ NoRequest EXCEPT !.route = "GET /generate", !.length = l, !.type = t,
                         !.exclude_ambiguous = e ] :
        l \in QueryLengths, t \in TypeParams, e \in QueryFlags }

BodyLengths == { Undefined, JsNumber(3), JsNumber(4), JsNumber(101) }

BodyFlags == { Undefined, JsBoolean(TRUE), JsBoolean(FALSE) }

BodyCounts ==
    { Undefined } \cup
    { JsNumber(n) : n \in (0 - 1)..2 \cup (BatchLimit - 1)..(BatchLimit + 2) }

PostGenerateRequests ==
    { [ NoRequest EXCEPT !.route = "POST /generate", !.length = l, !.type = t,
                         !.exclude_ambiguous = e, !.count = c ] :
        l \in BodyLengths, t \in TypeParams, e \in BodyFlags, c \in BodyCounts }

Requests ==
    { PlainRequest("GET /"), PlainRequest("GET /health"), PlainRequest("GET /docs"),
      PlainRequest("POST /health"),
      [ PlainRequest("POST /generate") EXCEPT !.malformed = TRUE ] }
    \cup GetGenerateRequests \cup PostGenerateRequests

----------------------------------------------------------------------------
(* Responses *)

NoResponse == [ status |-> 0 ]

Json(status, body) == [ status |-> status, body |-> body ]

InfoBody ==
    [ success |-> TRUE,
      data |-> [ name |-> "Arch Password Generator API",
                 version |-> "1.0.0",
                 description |-> "A professional password generation API with multiple complexity levels",
                 endpoints |-> "endpoints",
                 documentation |-> "documentation" ],
      meta |-> [ timestamp |-> Timestamp, server |-> "Vercel" ] ]

InvalidLengthBody ==
    [ success |-> FALSE,
      error |-> [ message |-> "Length must be a valid number", code |-> "INVALID_LENGTH" ],
      meta |-> [ timestamp |-> Timestamp ] ]

BatchLimitBody ==
    [ success |-> FALSE,
      error |-> [ message |-> "Cannot generate more than 10 passwords at once",
                  code |-> "BATCH_LIMIT_EXCEEDED" ] ]

HealthBody ==
    [ success |-> TRUE,
      data |-> [ status |-> "healthy", uptime |-> "process.uptime()",
                 memory |-> "process.memoryUsage()", timestamp |-> Timestamp ] ]

NotFoundBody ==
    [ success |-> FALSE,
      error |-> [ message |-> "Endpoint not found", code |-> "NOT_FOUND",
                  availableEndpoints |-> <<"/", "/generate", "/health">> ],
      meta |-> [ timestamp |-> Timestamp ] ]

InternalErrorBody ==
    [ success |-> FALSE,
      error |-> [ message |-> "Internal server error", code |-> "INTERNAL_ERROR" ],
      meta |-> [ timestamp |-> Timestamp ] ]

----------------------------------------------------------------------------
(* The routes *)

Call(length, type, excludeAmbiguous, result) ==
    [ length |-> length, type |-> type, excludeAmbiguous |-> excludeAmbiguous,
      result |-> result ]

Respond(res, calls, s) ==
    /\ response' = res
    /\ genCalls' = calls
    /\ rngState' = s
    /\ UNCHANGED <<request, scoreInput, scoreResult>>

\* a client sends a request
Receive ==
    /\ request = NoRequest
    /\ response = NoResponse
    /\ request' \in Requests
    /\ UNCHANGED <<rngState, response, genCalls, scoreInput, scoreResult>>

\* the client takes the response
Deliver ==
    /\ response # NoResponse
    /\ request' = NoRequest
    /\ response' = NoResponse
    /\ genCalls' = <<>>
    /\ UNCHANGED <<rngState, scoreInput, scoreResult>>

Pending(route) ==
    /\ request.route = route
    /\ ~request.malformed
    /\ response = NoResponse

\* app.get("/")
GetRoot ==
    /\ Pending("GET /")
    /\ Respond(Json(200, InfoBody), <<>>, rngState)

\* app.get("/generate"); a TypeError it throws reaches the global error handler
GetGenerate ==
    /\ Pending("GET /generate")
    /\ LET length == OrDefault(request.length, JsNumber(DefaultLength))
           type == IF request.type = <<>> THEN "standard" ELSE request.type[1]
           exclude_ambiguous ==
               OrDefault(request.exclude_ambiguous, JsString(<<"f", "a", "l", "s", "e">>))
           parsedLength == parseInt(length)
       IN  IF exclude_ambiguous.t # "string"
           THEN Respond(Json(500, InternalErrorBody), <<>>, rngState)
           ELSE LET excludeAmbiguous ==
                        toLowerCase(exclude_ambiguous.chars) = <<"t", "r", "u", "e">>
                IN  IF parsedLength.nan
                    THEN Respond(Json(400, InvalidLengthBody), <<>>, rngState)
                    ELSE \E g \in { generatePassword(parsedLength.value, type,
                                                     excludeAmbiguous, rngState) } :
                           LET calls == <<Call(parsedLength.value, type,
                                               excludeAmbiguous, g.result)>>
                           IN  IF g.result.success
                               THEN Respond(Json(200, g.result), calls, g.rng)
                               ELSE Respond(Json(400, g.result), calls, g.rng)

\* the for loop of app.post("/generate"): i is the loop counter, calls the
\* invocations made, s the generator state; it stops at the first failure.
\* (g ranges over a one-element set so that the call is evaluated once.)
RECURSIVE Batch(_, _, _, _, _, _, _)
Batch(i, count, length, type, excludeAmbiguous, calls, s) ==
    IF ~(i < count) THEN [ calls |-> calls, rng |-> s, failed |-> FALSE ]
    ELSE CHOOSE b \in
           { IF g.result.success
             THEN Batch(i + 1, count, length, type, excludeAmbiguous,
                        Append(calls, Call(length, type, excludeAmbiguous, g.result)),
                        g.rng)
             ELSE [ calls  |-> Append(calls, Call(length, type, excludeAmbiguous, g.result)),
                    rng    |-> g.rng,
                    failed |-> TRUE ] :
             g \in { generatePassword(length, type, excludeAmbiguous, s) } } : TRUE

\* a plausible slip: >= in place of >
OverBatchLimitInclusive(count) == count >= BatchLimit

\* count > 10
OverBatchLimit(count) == count > BatchLimit

\* app.post("/generate"), for a body that parsed
PostGenerate ==
    /\ Pending("POST /generate")
    /\ LET length == OrDefault(request.length, JsNumber(DefaultLength)).num
           type == IF request.type = <<>> THEN "standard" ELSE request.type[1]
           exclude_ambiguous == OrDefault(request.exclude_ambiguous, JsBoolean(FALSE)).bool
           count == OrDefault(request.count, JsNumber(1)).num
       IN  IF OverBatchLimit(count)
           THEN Respond(Json(400, BatchLimitBody), <<>>, rngState)
           ELSE \E b \in { Batch(0, count, length, type, exclude_ambiguous, <<>>, rngState) } :
                LET passwords == [ i \in 1..Len(b.calls) |-> b.calls[i].result.data ]
                IN  IF b.failed
                    THEN Respond(Json(400, b.calls[Len(b.calls)].result), b.calls, b.rng)
                    ELSE Respond(
                           Json(200,
                                [ success |-> TRUE,
                                  data    |-> IF count = 1 THEN passwords[1] ELSE passwords,
                                  count   |-> Len(passwords),
                                  meta    |-> GeneratorMeta ]),
                           b.calls, b.rng)

\* express.json() fails on the body and passes its error to the global error handler
JsonBodyError ==
    /\ request.route = "POST /generate"
    /\ request.malformed
    /\ response = NoResponse
    /\ Respond(Json(500, InternalErrorBody), <<>>, rngState)

\* app.get("/health")
GetHealth ==
    /\ Pending("GET /health")
    /\ Respond(Json(200, HealthBody), <<>>, rngState)

\* the 404 handler: no route matched
NotFound ==
    /\ request.route \notin {"none", "GET /", "GET /generate", "POST /generate", "GET /health"}
    /\ response = NoResponse
    /\ Respond(Json(404, NotFoundBody), <<>>, rngState)

\* no call of calculatePasswordStrength on its own has returned
NotScored == [ score |-> 0 - 1, level |-> "none", feedback |-> <<>> ]

Init ==
    /\ rngState \in 0..(RandDen - 1)
    /\ request = NoRequest
    /\ response = NoResponse
    /\ genCalls = <<>>
    /\ scoreInput = <<>>
    /\ scoreResult = NotScored

Next ==
    \/ Receive
    \/ GetRoot
    \/ GetGenerate
    \/ PostGenerate
    \/ JsonBodyError
    \/ GetHealth
    \/ NotFound
    \/ Deliver

Spec == Init /\ [][Next]_vars

----------------------------------------------------------------------------
(* The scorer on its own: calculatePasswordStrength applied to a string *)

MaxCore == 3       \* longest freely chosen part of an input string
MaxPad == 14       \* longest run of one character appended to it

ScoreChars == {"c", "d", "e", "f", "D", "1", "\\", "\n"}
PadChars == {"c", "D", "1", "\\"}

Pad(c, n) == [ i \in 1..n |-> c ]

Samples ==
    { <<"a", "a", "a", "a", "1", "1", "1", "1">>,
      <<"1", "2", "3", "\\", "1", "1">>,
      <<"c", "D", "e", "\\", "1", "1", "1">>,
      <<"x", "y", "z">>,
      <<"7", "8", "9", "0">> }

ScoreInputs ==
    { core \o Pad(c, n) :
        core \in UNION { [1..k -> ScoreChars] : k \in 0..MaxCore },
        c \in PadChars, n \in 0..MaxPad }
    \cup Samples

Score ==
    /\ scoreResult = NotScored
    /\ scoreResult' = calculatePasswordStrength(scoreInput)
    /\ UNCHANGED <<rngState, request, response, genCalls, scoreInput>>

ScoreInit ==
    /\ rngState = 0
    /\ request = NoRequest
    /\ response = NoResponse
    /\ genCalls = <<>>
    /\ scoreInput \in ScoreInputs
    /\ scoreResult = NotScored

ScoreNext == Score

ScoreSpec == ScoreInit /\ [][ScoreNext]_vars

----------------------------------------------------------------------------
(* Properties of generatePassword, over the invocations of a request *)

Presets == {"simple", "standard", "complex", "secure"}

Succeeded(call) == call.result.success

\* C1: a successful generatePassword returns a password of exactly the
\* requested number of characters and reports that number as data.length.
C1_LengthAsRequested ==
    \A k \in 1..Len(genCalls) :
        Succeeded(genCalls[k]) =>
            /\ Len(genCalls[k].result.data.password) = genCalls[k].length
            /\ genCalls[k].result.data.length = genCalls[k].length

C1_Witness ==
    \E k \in 1..Len(genCalls) :
        /\ Succeeded(genCalls[k])
        /\ genCalls[k].type = "simple"
        /\ genCalls[k].length = 50
        /\ Len(genCalls[k].result.data.password) = 50

\* C2: every character of a generated password is a character of the preset,
\* and none of 0, O, 1, I, l when excludeAmbiguous is set.
C2_CharactersOfAlphabet ==
    \A k \in 1..Len(genCalls) :
        Succeeded(genCalls[k]) =>
            LET password == genCalls[k].result.data.password
                alphabet == Range(PASSWORD_CONFIGS[genCalls[k].type].characters)
            IN  \A i \in 1..Len(password) :
                    /\ password[i] \in alphabet
                    /\ genCalls[k].excludeAmbiguous =>
                           password[i] \notin {"0", "O", "1", "I", "l"}

C2_Witness ==
    \E k \in 1..Len(genCalls) :
        /\ Succeeded(genCalls[k])
        /\ genCalls[k].excludeAmbiguous
        /\ genCalls[k].type = "secure"
        /\ genCalls[k].length = 100

C4_InvalidPresetRejected ==
    \A k \in 1..Len(genCalls) :
        genCalls[k].type \notin Presets =>
            /\ ~Succeeded(genCalls[k])
            /\ "data" \notin DOMAIN genCalls[k].result
            /\ genCalls[k].result.error.message =
                 "Invalid password type. Available types: simple, standard, complex, secure"

----------------------------------------------------------------------------
(* Properties of calculatePasswordStrength *)

Scored == scoreResult # NotScored

Clamped(n) == IF n < 0 THEN 0 ELSE IF n > 100 THEN 100 ELSE n

\* some character occurs three or more times in a row
HasTripleRepeat(s) ==
    \E i \in 1..(Len(s) - 2) : s[i] = s[i + 1] /\ s[i + 1] = s[i + 2]

\* the place of a character in a..z or in 1..9, ignoring case; 0 if in neither
LetterPlace(c) ==
    IF c \in LowerChars THEN CHOOSE i \in 1..Len(LowerSeq) : LowerSeq[i] = c
    ELSE IF c \in UpperChars THEN CHOOSE i \in 1..Len(UpperSeq) : UpperSeq[i] = c
    ELSE 0
DigitPlace(c) == IF c \in DigitChars \ {"0"} THEN DigitValue(c) ELSE 0

\* three characters at i, i+1, i+2 that ascend by one in a..z, the first of
\* them among the first n letters
LetterRunAt(s, i, n) ==
    /\ LetterPlace(s[i]) \in 1..n
    /\ LetterPlace(s[i + 1]) = LetterPlace(s[i]) + 1
    /\ LetterPlace(s[i + 2]) = LetterPlace(s[i]) + 2
DigitRunAt(s, i) ==
    /\ DigitPlace(s[i]) > 0
    /\ DigitPlace(s[i + 1]) = DigitPlace(s[i]) + 1
    /\ DigitPlace(s[i + 2]) = DigitPlace(s[i]) + 2

\* any ascending run of three of a..z or of 1..9
HasAscendingRun(s) ==
    \E i \in 1..(Len(s) - 2) : LetterRunAt(s, i, 24) \/ DigitRunAt(s, i)

\* an ascending run of three of a..e or of 1..9
HasListedRun(s) ==
    \E i \in 1..(Len(s) - 2) : LetterRunAt(s, i, 3) \/ DigitRunAt(s, i)

\* C5: calculatePasswordStrength returns a result for every string, the empty
\* one included, and its score is an integer from 0 to 100.
C5_ScoreInRange ==
    Scored =>
        /\ DOMAIN scoreResult = {"score", "level", "feedback"}
        /\ scoreResult.score \in 0..100

C5_Witness ==
    /\ Scored
    /\ scoreInput = <<>>
    /\ scoreResult.score = 0

\* C6: a password with a character repeated three or more times in a row has
\* 10 subtracted from its score before clamping.
C6_RepetitionPenalty ==
    Scored /\ HasTripleRepeat(scoreInput) =>
        scoreResult.score =
            Clamped(BonusScore(scoreInput) - 10
                    - (IF SequentialTest(scoreInput) THEN 5 ELSE 0))

\* C7, as claimed: a password with any ascending run of three letters of a..z
\* or three digits of 1..9, in either case, has 5 subtracted from its score
\* before clamping, and no other password has.
C7_AnyAscendingRun ==
    Scored =>
        scoreResult.score =
            Clamped(BonusScore(scoreInput)
                    - (IF RepetitionTest(scoreInput) THEN 10 ELSE 0)
                    - (IF HasAscendingRun(scoreInput) THEN 5 ELSE 0))

\* C7, amended: the runs that cost 5 are abc, bcd, cde and the runs of three
\* digits of 1..9, in either case; no other password has the penalty.
C7_ListedRuns ==
    Scored =>
        scoreResult.score =
            Clamped(BonusScore(scoreInput)
                    - (IF RepetitionTest(scoreInput) THEN 10 ELSE 0)
                    - (IF HasListedRun(scoreInput) THEN 5 ELSE 0))

C7_Witness ==
    /\ Scored
    /\ scoreInput = <<"c", "D", "e">>
    /\ scoreResult.score = 15

\* C8: the level returned is the one the thresholds give for the score
\* returned with it.
C8_LevelOfScore ==
    Scored =>
        LET score == scoreResult.score
            level == scoreResult.level
        IN  /\ level = "very_strong" <=> score >= 80
            /\ level = "strong" <=> score \in 60..79
            /\ level = "moderate" <=> score \in 40..59
            /\ level = "weak" <=> score \in 20..39
            /\ level = "very_weak" <=> score < 20

C8_Witness ==
    /\ Scored
    /\ scoreResult.score = 80
    /\ scoreResult.level = "very_strong"

----------------------------------------------------------------------------
(* Properties of the routes *)

Responded == response # NoResponse

PostHandled ==
    /\ Responded
    /\ request.route = "POST /generate"
    /\ ~request.malformed

RequestedCount == IF request.count.t = "undefined" THEN 1 ELSE request.count.num
RequestedLength == IF request.length.t = "undefined" THEN 12 ELSE request.length.num
RequestedType == IF request.type = <<>> THEN "standard" ELSE request.type[1]

ValidParameters ==
    /\ RequestedType \in Presets
    /\ RequestedLength >= 4
    /\ RequestedLength <= PASSWORD_CONFIGS[RequestedType].maxLength

\* C9: POST /generate rejects a count above 10 with BATCH_LIMIT_EXCEEDED before
\* any generatePassword call, never makes more than 10 calls, and for a count
\* of 1..10 with valid parameters makes count calls and returns count passwords.
C9_BatchLimit ==
    PostHandled =>
        /\ Len(genCalls) <= 10
        /\ RequestedCount > 10 =>
             /\ genCalls = <<>>
             /\ ~response.body.success
             /\ response.body.error.code = "BATCH_LIMIT_EXCEEDED"
        /\ RequestedCount \in 1..10 /\ ValidParameters =>
             /\ Len(genCalls) = RequestedCount
             /\ response.body.success
             /\ response.body.count = RequestedCount
             /\ IF RequestedCount = 1
                THEN response.body.data = genCalls[1].result.data
                ELSE /\ Len(response.body.data) = RequestedCount
                     /\ \A k \in 1..RequestedCount :
                            response.body.data[k] = genCalls[k].result.data

C9_Witness ==
    /\ PostHandled
    /\ RequestedCount = 10
    /\ response.body.success
    /\ Len(response.body.data) = 10

\* C10: every response is an envelope: a boolean success, data exactly when it
\* is a success and error exactly when it is not, and a meta object with
\* timestamp, generator and version.
C10_Envelope ==
    Responded =>
        /\ response.body.success \in BOOLEAN
        /\ "data" \in DOMAIN response.body <=> response.body.success
        /\ "error" \in DOMAIN response.body <=> ~response.body.success
        /\ "meta" \in DOMAIN response.body
        /\ {"timestamp", "generator", "version"} \subseteq DOMAIN response.body.meta

====
